---- MODULE Spec2Model ----
(***************************************************************************)
(* Model of the RCON client of StarForger/neb-mc-rcon: the packet codec    *)
(* (package packet) and the connection (package conn, conn/connection.go). *)
(* Bytes are integers 0..255, byte strings and Go strings are sequences    *)
(* of bytes, int32 values are integers in -2^31 .. 2^31-1.                 *)
(***************************************************************************)
EXTENDS Integers, Sequences, FiniteSets, TLC

\* ------------------------------------------------------------------------
\* package packet: constants
\* ------------------------------------------------------------------------
PacketLengthMax == 4106
PacketSizeMax == 4110
\* A minimum length that leaves the pad byte out.
PacketLengthMinNoPad == 10 - 1
PacketLengthMin == 10
typeLoginRequest == 3
typeCommandRequest == 2
typeLoginResponse == 2
typeCommandResponse == 0
typeInvalidResponse == -1
payloadRequestMax == 1024
payloadResponseMax == 4096

MaxInt32 == 2147483647
MinInt32 == (-2147483647) - 1

\* ------------------------------------------------------------------------
\* Bounds of the model
\* ------------------------------------------------------------------------
\* Frames the server sends in answer to one request.
MaxFrames == 2
\* Payload bytes of a server frame.
MaxReplyPayload == 1
\* Bytes of a socket read that returns only part of what has arrived.
MaxShortRead == 4
\* Execute calls one caller makes.
MaxCalls == 2
\* Bytes of the short request bodies the codec is given.
MaxSmallBody == 2
\* How far around a limit (of the payload, of the declared length) the
\* codec's inputs go.
MaxAround == 2

\* ------------------------------------------------------------------------
\* Errors (Go error values, by name) and the nil values
\* ------------------------------------------------------------------------
NoError == "nil"
ErrorPayloadRead == "connection: payload response can't be read"
ErrorResponseMismatch == "connection: response type mismatch"
ErrorIDMismatch == "connection: response/request id mismatch"
ErrorPassword == "connection: password incorrect"
ErrorUnknown == "connection: unknown response"
ErrorMaxPayloadLength == "packet: payload length too large"
ErrorMinPayloadLength == "packet: payload length too small"
ErrorMismatchedPayloadLength == "packet: payload length mismatch"
ErrSyntax == "strconv.Atoi: invalid syntax"
ErrEOF == "EOF"
ErrNet == "net: i/o error"
ErrTimeout == "net: i/o timeout"
ErrClosed == "net: use of closed network connection"
ErrDial == "net: dial failed"
\* Not an error value: the run-time panic of a slice expression whose bounds
\* are out of range, which ends the program.
Panic == "panic: slice bounds out of range"

\* A nil *Packet.
NilPacket ==
  [length |-> 0, requestId |-> 0, requestType |-> 0, payload |-> <<>>,
   method |-> "nil", encoded |-> <<>>]

\* A []byte that is nil.  A non-nil queue is a slice of the connection's
\* buffer, c.buffer[off:] (createResponse returns data[4+length:] and data is
\* c.buffer), so it is kept as the offset it starts at.
NilSlice == [isNil |-> TRUE, off |-> 0]

\* ------------------------------------------------------------------------
\* Byte helpers
\* ------------------------------------------------------------------------
Zeros(n) == [i \in 1..n |-> 0]

Min(a, b) == IF a < b THEN a ELSE b
Max(a, b) == IF a > b THEN a ELSE b

\* The four little-endian bytes of a non-negative int32.
LE32Nat(n) ==
  << n % 256, (n \div 256) % 256, (n \div 65536) % 256, (n \div 16777216) % 256 >>

\* binary.Write(buffer, binary.LittleEndian, int32): two's complement,
\* little-endian.  The bytes of a negative n are the complements of the
\* bytes of -(n+1).
LE32(n) ==
  IF n >= 0 THEN LE32Nat(n)
  ELSE LET m == LE32Nat(-(n + 1))
       IN << 255 - m[1], 255 - m[2], 255 - m[3], 255 - m[4] >>

\* id & 0x7fffffff on an int32: clears the sign bit.
And7fffffff(id) == IF id >= 0 THEN id ELSE (id + MaxInt32) + 1

\* int32 addition of 1, wrapping as Go's does.
Int32Succ(id) == IF id = MaxInt32 THEN MinInt32 ELSE id + 1

\* ------------------------------------------------------------------------
\* Packet.GetMetadata
\* ------------------------------------------------------------------------
GetMetadata(p) ==
  LET name ==
        IF p.method = "request"
        THEN (IF p.requestType = typeCommandRequest THEN "command"
              ELSE IF p.requestType = typeLoginRequest THEN "login"
              ELSE "unknown")
        ELSE IF p.method = "response"
        THEN (IF p.requestType = typeInvalidResponse THEN "invalid"
              ELSE IF p.requestType = typeCommandResponse THEN "command"
              ELSE IF p.requestType = typeLoginResponse THEN "login"
              ELSE "unknown")
        ELSE "unknown"
      payloadMax ==
        IF p.method = "request" THEN payloadRequestMax
        ELSE IF p.method = "response" THEN payloadResponseMax
        ELSE 0
  IN [name |-> name, payloadMax |-> payloadMax,
      lengthMax |-> PacketLengthMin + payloadMax]

GetId(p) == p.requestId
GetMethod(p) == p.method
GetPayload(p) == p.payload
GetEncoded(p) == p.encoded

\* ------------------------------------------------------------------------
\* Packet.verify
\* ------------------------------------------------------------------------
\* verify whose upper limit is off by one.
verifyOffByOne(p) ==
  IF p.length < PacketLengthMin THEN ErrorMinPayloadLength
  ELSE IF p.length >= GetMetadata(p).lengthMax THEN ErrorMaxPayloadLength
  ELSE IF p.length # PacketLengthMin + Len(p.payload)
       THEN ErrorMismatchedPayloadLength
  ELSE NoError

verify(p) ==
  IF p.length < PacketLengthMin THEN ErrorMinPayloadLength
  ELSE IF p.length > GetMetadata(p).lengthMax THEN ErrorMaxPayloadLength
  ELSE IF p.length # PacketLengthMin + Len(p.payload)
       THEN ErrorMismatchedPayloadLength
  ELSE NoError

\* ------------------------------------------------------------------------
\* Packet.encode
\* ------------------------------------------------------------------------
\* encode that leaves the pad byte out.
encodeNoPad(p) ==
  LE32(p.length) \o LE32(p.requestId) \o LE32(p.requestType)
    \o p.payload \o <<0>>

encode(p) ==
  LE32(p.length) \o LE32(p.requestId) \o LE32(p.requestType)
    \o p.payload \o <<0>> \o <<0>>

\* ------------------------------------------------------------------------
\* createRequestId: clock is what (time.Now().UnixNano() / 100000) % 100000
\* yields at the call, a value in 0..99999.
\* ------------------------------------------------------------------------
createRequestId(id, clock) ==
  IF id <= 0 \/ id # And7fffffff(id) THEN clock ELSE Int32Succ(id)

\* ------------------------------------------------------------------------
\* createRequest, CreateLoginRequest, CreateCommandRequest
\* ------------------------------------------------------------------------
\* createRequest that encodes the packet without verifying it.
createRequestUnverified(id, code, body, clock) ==
  LET p == [length |-> PacketLengthMin + Len(body),
            requestId |-> createRequestId(id, clock),
            requestType |-> code,
            payload |-> body,
            method |-> "request",
            encoded |-> <<>>]
  IN [err |-> NoError, p |-> [p EXCEPT !.encoded = encode(p)]]

createRequest(id, code, body, clock) ==
  LET p == [length |-> PacketLengthMin + Len(body),
            requestId |-> createRequestId(id, clock),
            requestType |-> code,
            payload |-> body,
            method |-> "request",
            encoded |-> <<>>]
      err == verify(p)
  IN IF err # NoError THEN [err |-> err, p |-> NilPacket]
     ELSE [err |-> NoError, p |-> [p EXCEPT !.encoded = encode(p)]]

CreateLoginRequest(password, clock) ==
  createRequest(0, typeLoginRequest, password, clock)

CreateCommandRequest(id, body, clock) ==
  createRequest(id, typeCommandRequest, body, clock)

\* ------------------------------------------------------------------------
\* createResponse
\* ------------------------------------------------------------------------
\* binary.Read(b, binary.LittleEndian, &intCheck) with intCheck a string:
\* a string is not a fixed-size value, so binary.Read returns "invalid type"
\* (the code ignores it) without consuming a byte of b and without
\* assigning intCheck.
BinaryReadString(b, intCheck) == [rest |-> b, val |-> intCheck]

IsDigit(ch) == ch >= 48 /\ ch <= 57

\* strconv.Atoi whose error is not looked at.
AtoiErrorIgnored(s) == TRUE

\* strconv.Atoi: an optional sign and at least one decimal digit.
AtoiOk(s) ==
  LET digits == IF Len(s) > 0 /\ s[1] \in {43, 45} THEN Tail(s) ELSE s
  IN Len(digits) > 0 /\ \A i \in 1..Len(digits) : IsDigit(digits[i])

RECURSIVE DigitsVal(_)
DigitsVal(s) ==
  IF Len(s) = 0 THEN 0
  ELSE 10 * DigitsVal(SubSeq(s, 1, Len(s) - 1)) + (s[Len(s)] - 48)

\* strconv.Atoi's value; 0 comes with the error for the empty string.
AtoiVal(s) ==
  IF Len(s) = 0 THEN 0
  ELSE IF s[1] = 45 THEN -DigitsVal(Tail(s))
  ELSE IF s[1] = 43 THEN DigitsVal(Tail(s))
  ELSE DigitsVal(s)

\* bytes.Buffer.ReadBytes(delim): the bytes up to and including the first
\* delim; io.EOF with all the bytes when there is none.
ReadBytes(b, delim) ==
  LET hits == {i \in 1..Len(b) : b[i] = delim}
  IN IF hits = {} THEN [line |-> b, err |-> ErrEOF, rest |-> <<>>]
     ELSE LET k == CHOOSE i \in hits : \A j \in hits : i <= j
          IN [line |-> SubSeq(b, 1, k), err |-> NoError,
              rest |-> SubSeq(b, k + 1, Len(b))]

\* The result of createResponse: the packet, the overflow (nil, or the slice
\* data[off:]) and the error.
ResponseError(err) == [err |-> err, p |-> NilPacket, overflow |-> NilSlice]

createResponse(data) ==
  LET r1 == BinaryReadString(data, <<>>)
  IN IF ~AtoiOk(r1.val) THEN ResponseError(ErrSyntax)
     ELSE
     LET r2 == BinaryReadString(r1.rest, r1.val)
     IN IF ~AtoiOk(r2.val) THEN ResponseError(ErrSyntax)
     ELSE
     LET r3 == BinaryReadString(r2.rest, r2.val)
     IN IF ~AtoiOk(r3.val) THEN ResponseError(ErrSyntax)
     ELSE
     LET rb == ReadBytes(r3.rest, 0)
     IN IF rb.err = ErrEOF /\ Len(rb.line) = 0 THEN ResponseError(Panic)
     ELSE IF rb.err # NoError THEN ResponseError(rb.err)
     ELSE
     LET p == [length |-> AtoiVal(r1.val),
               requestId |-> AtoiVal(r2.val),
               requestType |-> AtoiVal(r3.val),
               payload |-> rb.line,
               method |-> "response",
               encoded |-> data]
         err == verify(p)
     IN IF err # NoError THEN ResponseError(err)
        ELSE IF Len(data) = 4 + p.length
             THEN [err |-> NoError, p |-> p, overflow |-> NilSlice]
        ELSE IF 4 + p.length > Len(data) THEN ResponseError(Panic)
        ELSE [err |-> NoError, p |-> p,
              overflow |-> [isNil |-> FALSE, off |-> 4 + p.length]]

CreateLoginResponse(payload) == createResponse(payload)

CreateCommandResponse(payload) == createResponse(payload)

\* ------------------------------------------------------------------------
\* The server and the socket (the environment of package conn)
\* ------------------------------------------------------------------------
\* The bytes of one frame as the protocol lays it out.
ServerFrame(f) ==
  encode([length |-> PacketLengthMin + Len(f.payload), requestId |-> f.id,
          requestType |-> f.type, payload |-> f.payload,
          method |-> "response", encoded |-> <<>>])

RECURSIVE ServerBytes(_)
ServerBytes(frames) ==
  IF Len(frames) = 0 THEN <<>>
  ELSE ServerFrame(Head(frames)) \o ServerBytes(Tail(frames))

\* A type code no table of the protocol documents.
typeUndocumented == 5

ReplyPayloads == {Zeros(0)} \cup {[i \in 1..n |-> 97] : n \in 1..MaxReplyPayload}

\* A request id other than id.
OtherId(id) == Int32Succ(id)

\* Frames a server may send, by what the protocol calls them.
LoginAccepted(req) ==
  [id |-> req.requestId, type |-> typeLoginResponse, payload |-> <<>>]
LoginRejected ==
  [id |-> -1, type |-> typeLoginResponse, payload |-> <<>>]
LoginOtherId(req) ==
  [id |-> OtherId(req.requestId), type |-> typeLoginResponse, payload |-> <<>>]
Undocumented(req) ==
  [id |-> req.requestId, type |-> typeUndocumented, payload |-> <<>>]
TypeMinusOne(req) ==
  [id |-> req.requestId, type |-> typeInvalidResponse, payload |-> <<>>]
CommandAnswer(req, payload) ==
  [id |-> req.requestId, type |-> typeCommandResponse, payload |-> payload]
CommandOtherId(req) ==
  [id |-> OtherId(req.requestId), type |-> typeCommandResponse, payload |-> <<>>]

\* The frames a server may send after a login request: the password
\* accepted, the password rejected (request id -1), a frame of an
\* undocumented type, a login response for another request id, a frame
\* whose type is -1, a command response.
LoginFrames(req) ==
  { LoginAccepted(req), LoginRejected, Undocumented(req), LoginOtherId(req),
    TypeMinusOne(req), CommandAnswer(req, <<>>) }

\* The frames a server may send after a command request: the answer, a frame
\* of an undocumented type, an answer to another request id, a login
\* response.
CommandFrames(req) ==
  { CommandAnswer(req, pl) : pl \in ReplyPayloads }
  \cup { Undocumented(req), CommandOtherId(req), LoginAccepted(req) }

\* Every sequence of at most n frames out of a set.
SeqsUpTo(S, n) == UNION {[1..k -> S] : k \in 0..n}

\* What a server sends after a login request: at most MaxFrames frames.
LoginReplies(req) == SeqsUpTo(LoginFrames(req), MaxFrames)

\* What a server sends after a command request: nothing, or one of the
\* frames above followed by further command responses (a long answer split
\* into frames), at most n frames in all.
CommandReplies(req, n) ==
  { <<>> } \cup
  { <<f>> \o [i \in 1..k |-> CommandAnswer(req, <<>>)] :
      f \in CommandFrames(req), k \in 0..(n - 1) }

\* The size of the frame that starts at the head of the bytes b, by its
\* length field (0 when b holds no whole length field of a positive int32).
HeadFrameSize(b) ==
  IF Len(b) < 4 \/ b[4] >= 128 THEN 0
  ELSE 4 + b[1] + 256 * b[2] + 65536 * b[3] + 16777216 * b[4]

\* conn.Read on a socket holding the bytes b, into a slice of cap bytes: the
\* number of bytes it may return.  TCP may return any non-empty prefix; the
\* model takes the short reads of up to MaxShortRead bytes, the read that
\* returns one frame as the server wrote it, and the read that returns
\* everything that has arrived.
ReadSizes(b, cap) ==
  { n \in 1..Min(Len(b), cap) :
      n <= MaxShortRead \/ n = Len(b) \/ n = cap \/ n = HeadFrameSize(b) }

\* copy(dst[off:], src) on the buffer, kept as the prefix written so far
\* (the bytes behind it are the zeros make() put there).
Overwrite(buf, off, src) ==
  LET n == Max(Len(buf), off + Len(src))
  IN [i \in 1..n |->
        IF i > off /\ i <= off + Len(src) THEN src[i - off]
        ELSE IF i <= Len(buf) THEN buf[i]
        ELSE 0]

\* The whole slice c.buffer.
BufferBytes(buf) == buf \o Zeros(PacketSizeMax - Len(buf))

\* The bytes of the slice c.queue (non-nil): c.buffer[off:].
QueueBytes(buf, q) == SubSeq(BufferBytes(buf), q.off + 1, PacketSizeMax)

\* copy(c.buffer, c.queue): the queue overlaps the buffer it is copied to.
CopyQueue(buf, q) == Overwrite(buf, 0, QueueBytes(buf, q))

\* ------------------------------------------------------------------------
\* State
\* ------------------------------------------------------------------------
VARIABLES
  c,        \* the Connection: id, buffer (prefix written so far), queue
  lock,     \* c.lock: the caller holding it, or "free"
  sock,     \* c.conn: "none" (not dialled), "open", "closed"
  wire,     \* bytes the server has sent that no Read has returned yet
  sent,     \* the requests written to the socket, in order
  replies,  \* per written request, the frames the server answered with
  pc,       \* per caller, its position in Dial or Execute
  loc,      \* per caller, the locals of the call it is in
  ret       \* per caller, what its last call returned

vars == << c, lock, sock, wire, sent, replies, pc, loc, ret >>

\* What (time.Now().UnixNano() / 100000) % 100000 may yield.
Clocks == {0, 4242}

\* Passwords and commands the callers pass: a one-byte command and a command
\* of payloadRequestMax + 1 bytes.
Passwords == { <<112, 119>> }
Commands == { <<108>>, [i \in 1..(payloadRequestMax + 1) |-> 108] }

NoLocals ==
  [op |-> "none", req |-> NilPacket, cmd |-> <<>>, size |-> 0, attempt |-> 0,
   readErr |-> NoError, reads |-> 0, wrote |-> FALSE, calls |-> 0]

NoReturn == [done |-> FALSE, err |-> NoError, payload |-> <<>>, session |-> FALSE]

Returned(err, payload, session) ==
  [done |-> TRUE, err |-> err, payload |-> payload, session |-> session]

\* connect(): the Connection it builds.
NewConnection == [id |-> 0, buffer |-> <<>>, queue |-> NilSlice]

\* ------------------------------------------------------------------------
\* Dial: connect
\* ------------------------------------------------------------------------
Connect(t) ==
  /\ pc[t] = "Dial"
  /\ \E ok \in BOOLEAN :
       IF ok
       THEN /\ sock' = "open"
            /\ c' = NewConnection
            /\ pc' = [pc EXCEPT ![t] = "login"]
            /\ loc' = [loc EXCEPT ![t] = [NoLocals EXCEPT !.op = "login"]]
            /\ ret' = ret
       ELSE /\ pc' = [pc EXCEPT ![t] = "done"]
            /\ ret' = [ret EXCEPT ![t] = Returned(ErrDial, <<>>, FALSE)]
            /\ UNCHANGED << sock, c, loc >>
  /\ UNCHANGED << lock, wire, sent, replies >>

\* ------------------------------------------------------------------------
\* conn.Write of a request: the bytes reach the server, which answers
\* ------------------------------------------------------------------------
\* Execute that drops the error of conn.Write.
WriteErrorDropped(s) == NoError

WriteError(s) == IF s = "closed" THEN ErrClosed ELSE ErrNet

\* The frames the server has sent so far.
RECURSIVE FramesSent(_)
FramesSent(rs) == IF Len(rs) = 0 THEN 0 ELSE Len(Head(rs)) + FramesSent(Tail(rs))

\* ------------------------------------------------------------------------
\* login: build the login request and write it
\* ------------------------------------------------------------------------
LoginWrite(t) ==
  /\ pc[t] = "login"
  /\ \E password \in Passwords, clock \in Clocks :
       LET r == CreateLoginRequest(password, clock)
       IN IF r.err # NoError
          THEN /\ pc' = [pc EXCEPT ![t] = "done"]
               /\ ret' = [ret EXCEPT ![t] = Returned(r.err, <<>>, FALSE)]
               /\ UNCHANGED << loc, wire, sent, replies >>
          ELSE IF sock # "open"
          THEN /\ pc' = [pc EXCEPT ![t] = "done"]
               /\ ret' = [ret EXCEPT ![t] = Returned(WriteError(sock), <<>>, FALSE)]
               /\ UNCHANGED << loc, wire, sent, replies >>
          ELSE \E reply \in LoginReplies(r.p) :
               /\ sent' = Append(sent, r.p)
               /\ replies' = Append(replies, reply)
               /\ wire' = wire \o ServerBytes(reply)
               /\ loc' = [loc EXCEPT ![t].req = r.p, ![t].attempt = 1,
                                     ![t].wrote = TRUE]
               /\ pc' = [pc EXCEPT ![t] = "read_lock"]
               /\ UNCHANGED ret
  /\ UNCHANGED << c, lock, sock >>

\* ------------------------------------------------------------------------
\* read(), step by step: Lock; the first Read (or the copy of the queue);
\* the second Read when fewer than 4 bytes are there.  The size check and
\* the deferred Unlock belong to the step of the last Read.
\* ------------------------------------------------------------------------
AfterRead(t) == IF loc[t].op = "login" THEN "login_decode" ELSE "exec_decode"

ReadLock(t) ==
  /\ pc[t] = "read_lock"
  /\ lock = "free"
  /\ lock' = t
  /\ pc' = [pc EXCEPT ![t] = "read_first"]
  /\ UNCHANGED << c, sock, wire, sent, replies, loc, ret >>

\* What conn.Read answers when it returns no byte.
ReadError(s) == IF s = "closed" THEN ErrClosed ELSE ErrTimeout

\* The size check that ends read().
readSizeCheck(size) == IF size # 4 THEN ErrorPayloadRead ELSE NoError

\* read() that returns without the deferred Unlock.
ReadReturnsKeepsLock(t, err, size, reads) ==
  /\ lock' = lock
  /\ loc' = [loc EXCEPT ![t].readErr = err, ![t].size = size,
                        ![t].reads = @ + reads]
  /\ pc' = [pc EXCEPT ![t] = AfterRead(t)]

\* read() returns err: the deferred Unlock runs and the caller goes on.
ReadReturns(t, err, size, reads) ==
  /\ lock' = "free"
  /\ loc' = [loc EXCEPT ![t].readErr = err, ![t].size = size,
                        ![t].reads = @ + reads]
  /\ pc' = [pc EXCEPT ![t] = AfterRead(t)]

\* read() has size bytes after its first step: it reads once more when they
\* are fewer than 4, and else checks the size and returns.
ReadGoesOn(t, size, reads) ==
  IF size < 4
  THEN /\ loc' = [loc EXCEPT ![t].size = size, ![t].reads = @ + reads]
       /\ pc' = [pc EXCEPT ![t] = "read_more"]
       /\ lock' = lock
  ELSE ReadReturns(t, readSizeCheck(size), size, reads)

ReadFirst(t) ==
  /\ pc[t] = "read_first"
  /\ IF ~c.queue.isNil
     THEN /\ c' = [c EXCEPT !.buffer = CopyQueue(c.buffer, c.queue),
                            !.queue = NilSlice]
          /\ ReadGoesOn(t, PacketSizeMax - c.queue.off, 0)
          /\ UNCHANGED wire
     ELSE IF sock # "open" \/ Len(wire) = 0
     THEN /\ ReadReturns(t, ReadError(sock), 0, 1)
          /\ UNCHANGED << c, wire >>
     ELSE \E n \in ReadSizes(wire, PacketSizeMax) :
          /\ c' = [c EXCEPT !.buffer = Overwrite(c.buffer, 0, SubSeq(wire, 1, n))]
          /\ wire' = SubSeq(wire, n + 1, Len(wire))
          /\ ReadGoesOn(t, n, 1)
  /\ UNCHANGED << sock, sent, replies, ret >>

\* read() that reads again for as long as it has fewer than 4 bytes.
ReadMoreLoops(t) ==
  /\ pc[t] = "read_more"
  /\ IF sock # "open" \/ Len(wire) = 0
     THEN /\ ReadReturns(t, ReadError(sock), loc[t].size, 1)
          /\ UNCHANGED << c, wire >>
     ELSE \E n \in 1..Min(Len(wire), MaxShortRead) :
          /\ c' = [c EXCEPT !.buffer =
                     Overwrite(c.buffer, loc[t].size, SubSeq(wire, 1, n))]
          /\ wire' = SubSeq(wire, n + 1, Len(wire))
          /\ ReadGoesOn(t, loc[t].size + n, 1)
  /\ UNCHANGED << sock, sent, replies, ret >>

ReadMore(t) ==
  /\ pc[t] = "read_more"
  /\ IF sock # "open" \/ Len(wire) = 0
     THEN /\ ReadReturns(t, ReadError(sock), loc[t].size, 1)
          /\ UNCHANGED << c, wire >>
     ELSE \E n \in ReadSizes(wire, PacketSizeMax - loc[t].size) :
          /\ c' = [c EXCEPT !.buffer =
                     Overwrite(c.buffer, loc[t].size, SubSeq(wire, 1, n))]
          /\ wire' = SubSeq(wire, n + 1, Len(wire))
          /\ ReadReturns(t, readSizeCheck(loc[t].size + n), loc[t].size + n, 1)
  /\ UNCHANGED << sock, sent, replies, ret >>

\* ------------------------------------------------------------------------
\* loginReadAttempt, after its read(): readErr is what read() returned, data
\* is c.buffer
\* ------------------------------------------------------------------------
loginReadAttempt(readErr, data) ==
  IF readErr # NoError THEN ResponseError(readErr)
  ELSE LET r == CreateLoginResponse(data)
       IN IF r.err # NoError THEN ResponseError(r.err)
          ELSE LET name == GetMetadata(r.p).name
               IN IF name = "unknown" THEN ResponseError(ErrorUnknown)
                  ELSE IF name = "invalid" THEN ResponseError(ErrorPassword)
                  ELSE IF name # "login" \/ GetMethod(r.p) # "response"
                       THEN ResponseError(ErrorResponseMismatch)
                  ELSE r

\* login: whether the first attempt's error makes it read once more.
loginRetries(attempt, err) == attempt = 1 /\ err = ErrorUnknown

\* login, after its last attempt: the error it returns.
loginError(r, request) ==
  IF r.err # NoError THEN r.err
  ELSE IF GetId(r.p) # GetId(request) THEN ErrorIDMismatch
  ELSE NoError

\* Dial, once login returned err: what it does with the socket it opened.
dialFailed(s) == s

\* ------------------------------------------------------------------------
\* login after an attempt's read(), and the end of Dial
\* ------------------------------------------------------------------------
LoginAttempt(t) ==
  /\ pc[t] = "login_decode"
  /\ LET r == loginReadAttempt(loc[t].readErr, BufferBytes(c.buffer))
         err == loginError(r, loc[t].req)
     IN IF loginRetries(loc[t].attempt, r.err)
        THEN /\ loc' = [loc EXCEPT ![t].attempt = 2, ![t].readErr = NoError,
                                   ![t].size = 0]
             /\ pc' = [pc EXCEPT ![t] = "read_lock"]
             /\ UNCHANGED << c, ret, sock >>
        ELSE IF err # NoError
        THEN /\ pc' = [pc EXCEPT ![t] = "done"]
             /\ ret' = [ret EXCEPT ![t] = Returned(err, <<>>, FALSE)]
             /\ sock' = dialFailed(sock)
             /\ UNCHANGED << c, loc >>
        ELSE /\ c' = [c EXCEPT !.queue = r.overflow, !.id = GetId(r.p)]
             /\ pc' = [pc EXCEPT ![t] = "done"]
             /\ ret' = [ret EXCEPT ![t] = Returned(NoError, <<>>, TRUE)]
             /\ UNCHANGED << loc, sock >>
  /\ UNCHANGED << lock, wire, sent, replies >>

\* ------------------------------------------------------------------------
\* Execute: build the request from c.id
\* ------------------------------------------------------------------------
ExecuteBuild(t) ==
  /\ pc[t] = "Execute"
  /\ \E cmd \in Commands, clock \in Clocks :
       LET r == CreateCommandRequest(c.id, cmd, clock)
           locals == [NoLocals EXCEPT !.op = "exec", !.cmd = cmd, !.attempt = 1,
                                      !.calls = loc[t].calls + 1]
       IN IF r.err # NoError
          THEN /\ pc' = [pc EXCEPT ![t] = "done"]
               /\ ret' = [ret EXCEPT ![t] = Returned(r.err, <<>>, FALSE)]
               /\ loc' = [loc EXCEPT ![t] = locals]
          ELSE /\ loc' = [loc EXCEPT ![t] = [locals EXCEPT !.req = r.p]]
               /\ pc' = [pc EXCEPT ![t] = "exec_write"]
               /\ ret' = [ret EXCEPT ![t] = NoReturn]
  /\ UNCHANGED << c, lock, sock, wire, sent, replies >>

\* ------------------------------------------------------------------------
\* Execute: write the request
\* ------------------------------------------------------------------------
ExecuteWrite(t) ==
  /\ pc[t] = "exec_write"
  /\ IF sock # "open"
     THEN /\ pc' = [pc EXCEPT ![t] = "done"]
          /\ ret' = [ret EXCEPT ![t] = Returned(WriteError(sock), <<>>, FALSE)]
          /\ UNCHANGED << loc, wire, sent, replies >>
     ELSE \E reply \in CommandReplies(loc[t].req, MaxFrames - FramesSent(replies)) :
          /\ sent' = Append(sent, loc[t].req)
          /\ replies' = Append(replies, reply)
          /\ wire' = wire \o ServerBytes(reply)
          /\ loc' = [loc EXCEPT ![t].wrote = TRUE]
          /\ pc' = [pc EXCEPT ![t] = "read_lock"]
          /\ UNCHANGED ret
  /\ UNCHANGED << c, lock, sock >>

\* ------------------------------------------------------------------------
\* Execute, after its read(): the error and payload it returns and, on
\* success, the queue and id it stores
\* ------------------------------------------------------------------------
\* Execute that stores the id of its request whatever it returns.
executeResultStoresId(readErr, data, request) ==
  LET failed(err) == [err |-> err, payload |-> <<>>, store |-> TRUE,
                      queue |-> NilSlice, id |-> GetId(request)]
  IN IF readErr # NoError THEN failed(readErr)
     ELSE LET r == CreateCommandResponse(data)
          IN IF r.err # NoError THEN failed(r.err)
             ELSE LET name == GetMetadata(r.p).name
                  IN IF name = "unknown" THEN failed(ErrorUnknown)
                     ELSE IF name # "command" \/ GetMethod(r.p) # "response"
                          THEN failed(ErrorResponseMismatch)
                     ELSE IF GetId(r.p) # GetId(request) THEN failed(ErrorIDMismatch)
                     ELSE [err |-> NoError, payload |-> GetPayload(r.p),
                           store |-> TRUE, queue |-> r.overflow, id |-> GetId(r.p)]

executeResult(readErr, data, request) ==
  LET failed(err) == [err |-> err, payload |-> <<>>, store |-> FALSE,
                      queue |-> NilSlice, id |-> 0]
  IN IF readErr # NoError THEN failed(readErr)
     ELSE LET r == CreateCommandResponse(data)
          IN IF r.err # NoError THEN failed(r.err)
             ELSE LET name == GetMetadata(r.p).name
                  IN IF name = "unknown" THEN failed(ErrorUnknown)
                     ELSE IF name # "command" \/ GetMethod(r.p) # "response"
                          THEN failed(ErrorResponseMismatch)
                     ELSE IF GetId(r.p) # GetId(request) THEN failed(ErrorIDMismatch)
                     ELSE [err |-> NoError, payload |-> GetPayload(r.p),
                           store |-> TRUE, queue |-> r.overflow, id |-> GetId(r.p)]

ExecuteFinish(t) ==
  /\ pc[t] = "exec_decode"
  /\ LET r == executeResult(loc[t].readErr, BufferBytes(c.buffer), loc[t].req)
     IN /\ c' = IF r.store THEN [c EXCEPT !.queue = r.queue, !.id = r.id] ELSE c
        /\ ret' = [ret EXCEPT ![t] = Returned(r.err, r.payload, FALSE)]
        /\ pc' = [pc EXCEPT ![t] = "done"]
  /\ UNCHANGED << lock, sock, wire, sent, replies, loc >>

\* ------------------------------------------------------------------------
\* Close
\* ------------------------------------------------------------------------
\* Close that takes c.lock as read() does.
CloseUnderLock ==
  /\ lock = "free"
  /\ sock = "open"
  /\ sock' = "closed"
  /\ UNCHANGED << c, lock, wire, sent, replies, pc, loc, ret >>

Close ==
  /\ sock = "open"
  /\ sock' = "closed"
  /\ UNCHANGED << c, lock, wire, sent, replies, pc, loc, ret >>

\* ------------------------------------------------------------------------
\* A caller whose Execute returned calls Execute again
\* ------------------------------------------------------------------------
ExecuteAgain(t) ==
  /\ pc[t] = "done"
  /\ loc[t].op = "exec"
  /\ loc[t].calls < MaxCalls
  /\ pc' = [pc EXCEPT ![t] = "Execute"]
  /\ UNCHANGED << c, lock, sock, wire, sent, replies, loc, ret >>

\* ------------------------------------------------------------------------
\* Specification of Dial: one caller dials
\* ------------------------------------------------------------------------
Dialler == "dial"

Init ==
  /\ c = NewConnection
  /\ lock = "free"
  /\ sock = "none"
  /\ wire = <<>>
  /\ sent = <<>>
  /\ replies = <<>>
  /\ pc = [t \in {Dialler} |-> "Dial"]
  /\ loc = [t \in {Dialler} |-> NoLocals]
  /\ ret = [t \in {Dialler} |-> NoReturn]

Next ==
  \/ \E t \in DOMAIN pc : Connect(t)
  \/ \E t \in DOMAIN pc : LoginWrite(t)
  \/ \E t \in DOMAIN pc : ReadLock(t)
  \/ \E t \in DOMAIN pc : ReadFirst(t)
  \/ \E t \in DOMAIN pc : ReadMore(t)
  \/ \E t \in DOMAIN pc : LoginAttempt(t)

Spec == Init /\ [][Next]_vars

\* ------------------------------------------------------------------------
\* Specification of Execute: one caller of a Connection as Dial returns it
\* (socket open, id the login's request id, nothing queued) calls Execute
\* up to MaxCalls times, and the Connection may be closed at any time
\* ------------------------------------------------------------------------
Caller == "a"

InitSession(callers) ==
  /\ c \in {[NewConnection EXCEPT !.id = i] : i \in Clocks}
  /\ lock = "free"
  /\ sock = "open"
  /\ wire = <<>>
  /\ sent = <<>>
  /\ replies = <<>>
  /\ pc = [t \in callers |-> "Execute"]
  /\ loc = [t \in callers |-> NoLocals]
  /\ ret = [t \in callers |-> NoReturn]

InitExec == InitSession({Caller})

NextExec ==
  \/ \E t \in DOMAIN pc : ExecuteBuild(t)
  \/ \E t \in DOMAIN pc : ExecuteWrite(t)
  \/ \E t \in DOMAIN pc : ReadLock(t)
  \/ \E t \in DOMAIN pc : ReadFirst(t)
  \/ \E t \in DOMAIN pc : ReadMore(t)
  \/ \E t \in DOMAIN pc : ExecuteFinish(t)
  \/ \E t \in DOMAIN pc : ExecuteAgain(t)
  \/ Close

SpecExec == InitExec /\ [][NextExec]_vars

\* ------------------------------------------------------------------------
\* Specification of concurrent Execute: two callers of one Connection, one
\* call each
\* ------------------------------------------------------------------------
Callers == {"a", "b"}

InitConc == InitSession(Callers)

NextConc ==
  \/ \E t \in DOMAIN pc : ExecuteBuild(t)
  \/ \E t \in DOMAIN pc : ExecuteWrite(t)
  \/ \E t \in DOMAIN pc : ReadLock(t)
  \/ \E t \in DOMAIN pc : ReadFirst(t)
  \/ \E t \in DOMAIN pc : ReadMore(t)
  \/ \E t \in DOMAIN pc : ExecuteFinish(t)
  \/ Close

SpecConc == InitConc /\ [][NextConc]_vars

\* ------------------------------------------------------------------------
\* Specification of the calls as they are scheduled: a Dial, or the Execute
\* calls of one caller on a Connection that its holder may close.  A call
\* that can take a step takes it: the goroutine is runnable, and a conn.Read
\* returns by the deadline read() sets.  Close and a further call of Execute
\* are up to the caller.
\* ------------------------------------------------------------------------
InitCalls == Init \/ InitExec

\* A step of the call of caller t.
Run(t) ==
  \/ Connect(t)
  \/ LoginWrite(t)
  \/ LoginAttempt(t)
  \/ ExecuteBuild(t)
  \/ ExecuteWrite(t)
  \/ ReadLock(t)
  \/ ReadFirst(t)
  \/ ReadMore(t)
  \/ ExecuteFinish(t)

NextCalls ==
  \/ \E t \in DOMAIN pc : Connect(t)
  \/ \E t \in DOMAIN pc : LoginWrite(t)
  \/ \E t \in DOMAIN pc : LoginAttempt(t)
  \/ \E t \in DOMAIN pc : ExecuteBuild(t)
  \/ \E t \in DOMAIN pc : ExecuteWrite(t)
  \/ \E t \in DOMAIN pc : ReadLock(t)
  \/ \E t \in DOMAIN pc : ReadFirst(t)
  \/ \E t \in DOMAIN pc : ReadMore(t)
  \/ \E t \in DOMAIN pc : ExecuteFinish(t)
  \/ \E t \in DOMAIN pc : ExecuteAgain(t)
  \/ (Dialler \notin DOMAIN pc /\ Close)

SpecCalls ==
  InitCalls /\ [][NextCalls]_vars /\ WF_vars(\E t \in DOMAIN pc : Run(t))

\* ------------------------------------------------------------------------
\* Properties
\* ------------------------------------------------------------------------
\* The call of caller t has returned.
Done(t) == pc[t] = "done" /\ ret[t].done

\* Caller t's first Execute has returned, its request was written, the
\* server answered it and nobody closed the Connection.
FirstExecuteDone(t) ==
  /\ Done(t)
  /\ loc[t].op = "exec"
  /\ loc[t].calls = 1
  /\ loc[t].wrote
  /\ sock = "open"
  /\ Len(sent) >= 1
  /\ sent[1] = loc[t].req

\* Dial has returned after it wrote its login request.
DialDone ==
  /\ Done(Dialler)
  /\ loc[Dialler].wrote
  /\ Len(replies) = 1

\* The bytes held in c.queue.
PendingOverflow == IF c.queue.isNil THEN <<>> ELSE QueueBytes(c.buffer, c.queue)

\* The part of b that is not all zero bytes at its end.
RECURSIVE TrimZeros(_)
TrimZeros(b) ==
  IF Len(b) > 0 /\ b[Len(b)] = 0 THEN TrimZeros(SubSeq(b, 1, Len(b) - 1)) ELSE b

\* C1: end to end, on a Connection Dial returned, an Execute whose request
\* the server answers with exactly one command-response frame carrying the
\* request's id and payload P returns P and no error.
C1_ExecuteReturnsPayload ==
  \A t \in DOMAIN pc :
    (/\ FirstExecuteDone(t)
     /\ Len(replies[1]) = 1
     /\ replies[1][1].type = typeCommandResponse
     /\ replies[1][1].id = loc[t].req.requestId)
    => (ret[t].err = NoError /\ ret[t].payload = replies[1][1].payload)

\* A caller is inside its round trip: its request is written and its call has
\* not returned.
InRoundTrip(t) == loc[t].op = "exec" /\ loc[t].wrote /\ pc[t] # "done"

\* C2: the write-then-read round trips of two callers of one Connection
\* never overlap (the whole round trip is one critical section).
C2_RoundTripSerialized ==
  \A t \in DOMAIN pc : \A u \in DOMAIN pc :
    t # u => ~(InRoundTrip(t) /\ InRoundTrip(u))

C4_ExecuteErrorMapping ==
  \A t \in DOMAIN pc :
    (FirstExecuteDone(t) /\ Len(replies[1]) = 1)
    => LET f == replies[1][1]
       IN /\ f = Undocumented(loc[t].req)
               => (ret[t].err = ErrorUnknown /\ ret[t].payload = <<>>)
          /\ f = LoginAccepted(loc[t].req)
               => (ret[t].err = ErrorResponseMismatch /\ ret[t].payload = <<>>)
          /\ f = CommandOtherId(loc[t].req)
               => (ret[t].err = ErrorIDMismatch /\ ret[t].payload = <<>>)

\* C5: a login response with request id -1 makes Dial fail with
\* ErrorPassword and return no Connection.
C5_RejectedPasswordError ==
  (DialDone /\ replies[1] = << LoginRejected >>)
  => (ret[Dialler].err = ErrorPassword /\ ~ret[Dialler].session)

\* C6: when Dial returns an error after it opened the socket, the socket is
\* closed.
C6_FailedDialClosesSocket ==
  (Done(Dialler) /\ ret[Dialler].err # NoError /\ sock # "none")
  => sock = "closed"

\* C7: when the server sends a frame classified unknown and then the login
\* response for the request, Dial succeeds, however the bytes are split
\* across reads.
C7_LoginRetrySucceeds ==
  (DialDone
   /\ replies[1] = << Undocumented(loc[Dialler].req), LoginAccepted(loc[Dialler].req) >>)
  => (ret[Dialler].err = NoError /\ ret[Dialler].session)

\* C8: Dial makes at most two read attempts, the second only after a first
\* frame classified unknown, and fails with ErrorUnknown when the second
\* frame is classified unknown too.
C8_LoginReadsAtMostTwice ==
  /\ loc[Dialler].attempt <= 2
  /\ loc[Dialler].attempt = 2
       => (Len(replies) = 1 /\ Len(replies[1]) >= 1
           /\ replies[1][1] = Undocumented(loc[Dialler].req))
  /\ (DialDone
      /\ replies[1] = << Undocumented(loc[Dialler].req), Undocumented(loc[Dialler].req) >>)
     => ret[Dialler].err = ErrorUnknown

\* C9: a login response for another request id than the login request's
\* makes Dial fail with ErrorIDMismatch.
C9_LoginIdMismatch ==
  (DialDone /\ replies[1] = << LoginOtherId(loc[Dialler].req) >>)
  => ret[Dialler].err = ErrorIDMismatch

SecondExecuteDone(t) ==
  /\ Done(t)
  /\ loc[t].op = "exec"
  /\ loc[t].calls = 2
  /\ loc[t].wrote
  /\ sock = "open"
  /\ Len(sent) = 2
  /\ sent[2] = loc[t].req

\* C11: when one socket read delivers two concatenated command-response
\* frames for the request, Execute returns the first frame's payload and
\* c.queue holds exactly the bytes of the second frame.
C11_TwoFramesOneRead ==
  \A t \in DOMAIN pc :
    (/\ FirstExecuteDone(t)
     /\ Len(replies[1]) = 2
     /\ replies[1][1] = CommandAnswer(loc[t].req, replies[1][1].payload)
     /\ replies[1][2] = CommandAnswer(loc[t].req, replies[1][2].payload)
     /\ loc[t].reads = 1
     /\ loc[t].size = Len(ServerBytes(replies[1])))
    => (/\ ret[t].err = NoError
        /\ ret[t].payload = replies[1][1].payload
        /\ PendingOverflow = ServerFrame(replies[1][2]))

ResponseUnread(t) ==
  /\ loc[t].op = "exec"
  /\ loc[t].wrote
  /\ pc[t] \in {"read_lock", "read_first", "read_more"}

\* C13: at most one request is in flight: never two written requests whose
\* responses are both unread.
C13_OneRequestInFlight ==
  Cardinality({t \in DOMAIN pc : ResponseUnread(t)}) <= 1

\* C14: once the Connection is closed it stays closed, and an Execute that
\* reaches its Write after Close returns the error of that Write, writes
\* nothing and returns no payload.
C14_ExecuteAfterClose ==
  [][ /\ sock = "closed" => sock' = "closed"
      /\ \A t \in DOMAIN pc :
           (sock = "closed" /\ pc[t] = "exec_write" /\ pc'[t] # "exec_write")
           => (/\ pc'[t] = "done"
               /\ ret'[t].done
               /\ ret'[t].err = ErrClosed
               /\ ret'[t].payload = <<>>
               /\ sent' = sent
               /\ wire' = wire) ]_vars

\* An Execute called after another one on the same Connection found the
\* Connection closed at its Write.
C14_Witness ==
  \E t \in DOMAIN pc :
    /\ Done(t)
    /\ loc[t].op = "exec"
    /\ loc[t].calls = 2
    /\ ~loc[t].wrote
    /\ sock = "closed"
    /\ ret[t].err = ErrClosed
    /\ ret[t].payload = <<>>

\* C15: Close can be called while a caller holds c.lock inside read(), and a
\* Read of read() on the closed socket returns the closed-connection error,
\* which Execute returns to its caller with no payload.
C15_CloseUnblocksRead ==
  /\ [](\A t \in DOMAIN pc : (lock = t /\ sock = "open") => ENABLED Close)
  /\ [][ \A t \in DOMAIN pc :
           /\ (/\ sock = "closed"
               /\ c.queue.isNil
               /\ pc[t] \in {"read_first", "read_more"}
               /\ pc'[t] # pc[t])
              => (/\ pc'[t] = AfterRead(t)
                  /\ loc'[t].readErr = ErrClosed
                  /\ lock' = "free")
           /\ (pc[t] = "exec_decode" /\ loc[t].readErr = ErrClosed /\ pc'[t] # pc[t])
              => (/\ pc'[t] = "done"
                  /\ ret'[t].err = ErrClosed
                  /\ ret'[t].payload = <<>>) ]_vars

\* An Execute whose request was written returned the closed-connection
\* error of its read: the Connection was closed during its round trip.
C15_Witness ==
  \E t \in DOMAIN pc :
    /\ Done(t)
    /\ loc[t].op = "exec"
    /\ loc[t].wrote
    /\ loc[t].readErr = ErrClosed
    /\ loc[t].reads >= 1
    /\ sock = "closed"
    /\ ret[t].err = ErrClosed

\* C16: after an Execute that failed with a read timeout (the server did not
\* answer), the next Execute on the Connection, which the server answers with
\* the command response for it, succeeds and returns that payload.
C16_ExecuteAfterTimeout ==
  \A t \in DOMAIN pc :
    (/\ SecondExecuteDone(t)
     /\ replies[1] = <<>>
     /\ Len(replies[2]) = 1
     /\ replies[2][1] = CommandAnswer(loc[t].req, replies[2][1].payload))
    => (ret[t].err = NoError /\ ret[t].payload = replies[2][1].payload)

\* ------------------------------------------------------------------------
\* Specification of the codec: the Create functions of package packet are
\* called on inputs drawn at the start, and the encoded bytes of a request
\* that was built are handed to the decoder of its kind
\* ------------------------------------------------------------------------
Coder == "codec"

\* Request bodies: every short string over a letter and the zero byte, and
\* the strings of a letter whose length is around payloadRequestMax.
RequestBodies ==
  UNION {[1..n -> {0, 97}] : n \in 0..MaxSmallBody}
  \cup {[i \in 1..n |-> 97] :
          n \in (payloadRequestMax - MaxAround)..(payloadRequestMax + MaxAround)}

\* The id a caller passes to CreateCommandRequest (c.id).
RequestIds == {MinInt32, -1, 0, 1, 4242, MaxInt32}

\* Declared lengths around PacketLengthMin and around PacketLengthMax.
DeclaredLengths ==
  ((PacketLengthMin - MaxAround)..(PacketLengthMin + MaxAround))
  \cup ((PacketLengthMax - MaxAround)..(PacketLengthMax + MaxAround))
  \cup {MinInt32, -1, MaxInt32}

\* The bytes of a frame whose length field says length: the header, the
\* payload the length leaves room for (no more than a little over
\* payloadResponseMax bytes of it), the terminator and the pad.
ResponseData(length, id, type) ==
  LET n == IF length <= PacketLengthMin THEN 0
           ELSE Min(length - PacketLengthMin, payloadResponseMax + MaxAround)
  IN LE32(length) \o LE32(id) \o LE32(type) \o [i \in 1..n |-> 97] \o <<0>> \o <<0>>

\* What a caller may hand to the decoder in place of one whole frame d: the
\* frame followed by a second one, the frame with one more payload byte than
\* its length field says, the frame without its pad byte, its header alone,
\* its first 3 bytes, nothing.
Shapes == {"frame", "two", "longer", "nopad", "header", "short", "empty"}

Shaped(d, shape) ==
  IF shape = "two"
    THEN d \o ResponseData(PacketLengthMin, 4242, typeCommandResponse)
  ELSE IF shape = "longer" THEN SubSeq(d, 1, 12) \o <<97>> \o SubSeq(d, 13, Len(d))
  ELSE IF shape = "nopad" THEN SubSeq(d, 1, Len(d) - 1)
  ELSE IF shape = "header" THEN SubSeq(d, 1, 12)
  ELSE IF shape = "short" THEN SubSeq(d, 1, 3)
  ELSE IF shape = "empty" THEN <<>>
  ELSE d

\* The packets GetMetadata is asked about: requests and responses of every
\* type code of the protocol, of an undocumented one and of -1, with the
\* request id -1 and another one.
MetadataPackets ==
  {[NilPacket EXCEPT !.method = method, !.requestType = type, !.requestId = id,
                     !.length = PacketLengthMin] :
     method \in {"request", "response"},
     type \in {typeLoginRequest, typeCommandRequest, typeCommandResponse,
               typeInvalidResponse, typeUndocumented},
     id \in {-1, 0, 4242}}

NoResult == [done |-> FALSE, err |-> NoError, p |-> NilPacket, overflow |-> NilSlice]

Result(r) == [done |-> TRUE, err |-> r.err, p |-> r.p, overflow |-> r.overflow]

\* The inputs of one call and what the calls returned.
CodecLocals(fn, id, body, clock, length, type) ==
  [fn |-> fn, id |-> id, body |-> body, clock |-> clock, length |-> length,
   type |-> type,
   data |-> IF fn \in {"CreateLoginResponse", "CreateCommandResponse"}
            THEN ResponseData(length, id, type) ELSE <<>>,
   built |-> NoResult, decoded |-> NoResult,
   shape |-> "frame", packet |-> NilPacket,
   meta |-> [done |-> FALSE, name |-> "", payloadMax |-> 0, lengthMax |-> 0]]

\* A call of a decoder on the frame above in one of the shapes.
DecoderLocals(fn, id, length, type, shape) ==
  [CodecLocals(fn, id, <<>>, 0, length, type) EXCEPT
     !.shape = shape,
     !.data = Shaped(ResponseData(length, id, type), shape)]

\* A call of GetMetadata on packet p.
MetadataLocals(p) ==
  [CodecLocals("GetMetadata", p.requestId, <<>>, 0, p.length, p.requestType)
     EXCEPT !.packet = p]

CodecInputs ==
  {CodecLocals("CreateLoginRequest", 0, body, clock, 0, typeLoginRequest) :
     body \in RequestBodies, clock \in Clocks}
  \cup {CodecLocals("CreateCommandRequest", id, body, clock, 0, typeCommandRequest) :
     id \in RequestIds, body \in RequestBodies, clock \in Clocks}
  \cup {DecoderLocals(fn, id, length, type, shape) :
     fn \in {"CreateLoginResponse", "CreateCommandResponse"},
     id \in {-1, 4242}, length \in DeclaredLengths,
     type \in {typeLoginResponse, typeCommandResponse, typeUndocumented},
     shape \in Shapes}
  \cup {MetadataLocals(p) : p \in MetadataPackets}

InitCodec ==
  /\ c = NewConnection
  /\ lock = "free"
  /\ sock = "none"
  /\ wire = <<>>
  /\ sent = <<>>
  /\ replies = <<>>
  /\ pc = [t \in {Coder} |-> "call"]
  /\ loc \in {[t \in {Coder} |-> in] : in \in CodecInputs}
  /\ ret = [t \in {Coder} |-> NoReturn]

\* A request was built or not: the encoded bytes of a built request go to
\* the decoder next.
Built(t, r) ==
  /\ loc' = [loc EXCEPT ![t].built =
               [done |-> TRUE, err |-> r.err, p |-> r.p, overflow |-> NilSlice]]
  /\ pc' = [pc EXCEPT ![t] = IF r.err = NoError THEN "built" ELSE "done"]
  /\ UNCHANGED << c, lock, sock, wire, sent, replies, ret >>

Decoded(t, r) ==
  /\ loc' = [loc EXCEPT ![t].decoded = Result(r)]
  /\ pc' = [pc EXCEPT ![t] = "done"]
  /\ UNCHANGED << c, lock, sock, wire, sent, replies, ret >>

BuildLogin(t) ==
  /\ pc[t] = "call"
  /\ loc[t].fn = "CreateLoginRequest"
  /\ Built(t, CreateLoginRequest(loc[t].body, loc[t].clock))

BuildCommand(t) ==
  /\ pc[t] = "call"
  /\ loc[t].fn = "CreateCommandRequest"
  /\ Built(t, CreateCommandRequest(loc[t].id, loc[t].body, loc[t].clock))

DecodeLogin(t) ==
  /\ pc[t] = "call"
  /\ loc[t].fn = "CreateLoginResponse"
  /\ Decoded(t, CreateLoginResponse(loc[t].data))

DecodeCommand(t) ==
  /\ pc[t] = "call"
  /\ loc[t].fn = "CreateCommandResponse"
  /\ Decoded(t, CreateCommandResponse(loc[t].data))

Classify(t) ==
  /\ pc[t] = "call"
  /\ loc[t].fn = "GetMetadata"
  /\ LET m == GetMetadata(loc[t].packet)
     IN loc' = [loc EXCEPT ![t].meta =
                  [done |-> TRUE, name |-> m.name, payloadMax |-> m.payloadMax,
                   lengthMax |-> m.lengthMax]]
  /\ pc' = [pc EXCEPT ![t] = "done"]
  /\ UNCHANGED << c, lock, sock, wire, sent, replies, ret >>

DecodeBuilt(t) ==
  /\ pc[t] = "built"
  /\ Decoded(t, IF loc[t].fn = "CreateLoginRequest"
                THEN CreateLoginResponse(GetEncoded(loc[t].built.p))
                ELSE CreateCommandResponse(GetEncoded(loc[t].built.p)))

NextCodec ==
  \/ \E t \in DOMAIN pc : BuildLogin(t)
  \/ \E t \in DOMAIN pc : BuildCommand(t)
  \/ \E t \in DOMAIN pc : DecodeLogin(t)
  \/ \E t \in DOMAIN pc : DecodeCommand(t)
  \/ \E t \in DOMAIN pc : DecodeBuilt(t)
  \/ \E t \in DOMAIN pc : Classify(t)

SpecCodec == InitCodec /\ [][NextCodec]_vars

\* ------------------------------------------------------------------------
\* Properties of the codec
\* ------------------------------------------------------------------------
\* C17: the encoded bytes of a command request built from a body of at most
\* 1024 bytes decode to the request's id and to a payload equal to the body.
C17_CommandRoundTrip ==
  \A t \in DOMAIN pc :
    (/\ loc[t].fn = "CreateCommandRequest"
     /\ Len(loc[t].body) <= 1024
     /\ loc[t].decoded.done)
    => (/\ loc[t].decoded.err = NoError
        /\ GetId(loc[t].decoded.p) = GetId(loc[t].built.p)
        /\ GetPayload(loc[t].decoded.p) = loc[t].body)

C20_DeclaredLengthRange ==
  \A t \in DOMAIN pc :
    (/\ loc[t].fn \in {"CreateLoginResponse", "CreateCommandResponse"}
     /\ loc[t].shape = "frame"
     /\ loc[t].decoded.done)
    => /\ loc[t].length < 10 => loc[t].decoded.err = ErrorMinPayloadLength
       /\ loc[t].length > 10 + 4096 => loc[t].decoded.err = ErrorMaxPayloadLength

\* C21: createRequestId answers seed + 1 for every positive seed of the
\* 31-bit positive range, and an id within 0 .. 2^31-1 for every seed <= 0.
C21_NextId ==
  \A t \in DOMAIN pc :
    (/\ loc[t].fn = "CreateCommandRequest"
     /\ loc[t].built.done
     /\ loc[t].built.err = NoError)
    => LET seed == loc[t].id
           id == GetId(loc[t].built.p)
       IN /\ (seed > 0 /\ seed <= MaxInt32) => (id > seed /\ id - seed = 1)
          /\ seed <= 0 => (id >= 0 /\ id <= MaxInt32)

\* C22: GetMetadata names a response invalid whenever its request id is -1,
\* whatever its type; otherwise login for type 2, command for type 0 and
\* unknown for every other type; payloadMax is 1024 for a request and 4096
\* for a response.
C22_Classification ==
  \A t \in DOMAIN pc :
    loc[t].meta.done
    => LET p == loc[t].packet
       IN /\ p.method = "response"
               => loc[t].meta.name =
                    (IF p.requestId = -1 THEN "invalid"
                     ELSE IF p.requestType = 2 THEN "login"
                     ELSE IF p.requestType = 0 THEN "command"
                     ELSE "unknown")
          /\ p.method = "request" => loc[t].meta.payloadMax = 1024
          /\ p.method = "response" => loc[t].meta.payloadMax = 4096

\* The decoder was called on one whole frame whose length field is within
\* 10 .. 10 + 4096 and agrees with its payload.
ValidFrameDecoded(t) ==
  /\ loc[t].fn \in {"CreateLoginResponse", "CreateCommandResponse"}
  /\ loc[t].shape = "frame"
  /\ loc[t].length >= 10
  /\ loc[t].length <= 10 + 4096
  /\ loc[t].decoded.done

\* C23: decoding a valid response frame of a type outside the documented set
\* does not fail: it yields a packet that GetMetadata names unknown.
C23_UnknownTypeDecodes ==
  \A t \in DOMAIN pc :
    (/\ ValidFrameDecoded(t)
     /\ loc[t].type = typeUndocumented
     /\ loc[t].id # -1)
    => (/\ loc[t].decoded.err = NoError
        /\ loc[t].decoded.p # NilPacket
        /\ GetMetadata(loc[t].decoded.p).name = "unknown")

\* C24: on every input (empty, truncated, without pad, with a negative or
\* oversized length field) the decoders return a packet or an error; they
\* never panic on a slice expression out of range.
C24_DecodeNeverPanics ==
  \A t \in DOMAIN pc :
    loc[t].decoded.done
    => (/\ loc[t].decoded.err # Panic
        /\ loc[t].decoded.err = NoError <=> loc[t].decoded.p # NilPacket)

\* The decoder returned an error on an empty input.
C24_Witness ==
  \E t \in DOMAIN pc :
    /\ loc[t].fn \in {"CreateLoginResponse", "CreateCommandResponse"}
    /\ loc[t].data = <<>>
    /\ loc[t].decoded.done
    /\ loc[t].decoded.err \notin {NoError, Panic}

\* The bytes of the overflow o that createResponse returned on data.
OverflowBytes(data, o) ==
  IF o.isNil THEN <<>> ELSE SubSeq(data, o.off + 1, Len(data))

C26_PayloadLengthCheck ==
  \A t \in DOMAIN pc :
    (/\ loc[t].fn \in {"CreateLoginResponse", "CreateCommandResponse"}
     /\ loc[t].shape \in {"frame", "longer"}
     /\ loc[t].length >= 10
     /\ loc[t].length <= 10 + 4096
     /\ loc[t].decoded.done)
    => /\ loc[t].shape = "longer"
            => loc[t].decoded.err = ErrorMismatchedPayloadLength
       /\ loc[t].shape = "frame" => loc[t].decoded.err = NoError

\* The int32 that four little-endian bytes stand for.
FromLE32(b) ==
  b[1] + 256 * b[2] + 65536 * b[3]
    + 16777216 * (IF b[4] >= 128 THEN b[4] - 256 ELSE b[4])

C29_SecondReadOnlyBelowFour ==
  [][ \A t \in DOMAIN pc :
        /\ (pc[t] = "read_first" /\ c.queue.isNil /\ wire' # wire)
           => LET n == Len(wire) - Len(wire')
              IN /\ SubSeq(c'.buffer, 1, n) = SubSeq(wire, 1, n)
                 /\ IF n < 4
                    THEN pc'[t] = "read_more" /\ loc'[t].size = n
                    ELSE /\ pc'[t] = AfterRead(t)
                         /\ loc'[t].size = n
                         /\ loc'[t].readErr = NoError
        /\ (pc[t] = "read_more" /\ wire' # wire)
           => LET n == Len(wire) - Len(wire')
                  size == loc[t].size
              IN /\ SubSeq(c'.buffer, 1, size) = SubSeq(c.buffer, 1, size)
                 /\ SubSeq(c'.buffer, size + 1, size + n) = SubSeq(wire, 1, n)
                 /\ pc'[t] = AfterRead(t)
                 /\ loc'[t].size = size + n
                 /\ loc'[t].readErr = NoError ]_vars

C31_IdNeverNegative ==
  \A t \in DOMAIN pc :
    (/\ loc[t].fn \in {"CreateLoginRequest", "CreateCommandRequest"}
     /\ loc[t].built.done
     /\ loc[t].built.err = NoError)
    => (GetId(loc[t].built.p) >= 0 /\ GetId(loc[t].built.p) <= MaxInt32)

ReturnsError(t) ==
  /\ pc[t] # "done"
  /\ pc'[t] = "done"
  /\ ret'[t].err # NoError

\* C33: the step in which an Execute returns an error leaves c.id as it was;
\* c.id changes only in the step in which an Execute returns without error.
C33_ErrorKeepsId ==
  [][/\ \A t \in DOMAIN pc : ReturnsError(t) => c'.id = c.id
     /\ c'.id # c.id =>
          \E t \in DOMAIN pc : /\ pc[t] = "exec_decode"
                                /\ pc'[t] = "done"
                                /\ ret'[t].err = NoError]_vars

\* An Execute wrote its request, read the socket and returned an error, and
\* the id of its request is not c.id.
C33_Witness ==
  \E t \in DOMAIN pc :
    /\ Done(t)
    /\ loc[t].op = "exec"
    /\ loc[t].wrote
    /\ loc[t].reads >= 1
    /\ ret[t].err # NoError
    /\ GetId(loc[t].req) # c.id

InsideRead(t) == pc[t] \in {"read_first", "read_more"}

\* C36: c.lock is held by caller t exactly while t is inside read(), so by
\* at most one caller and by none that has left read(), whatever read()
\* returned; and while a call has not returned some call can take a step:
\* the holder of the lock can always go on, and a caller waiting for the
\* lock can take it once it is free.
C36_LockReleased ==
  /\ \A t \in DOMAIN pc : InsideRead(t) <=> lock = t
  /\ \A t, u \in DOMAIN pc : (InsideRead(t) /\ InsideRead(u)) => t = u
  /\ lock \in DOMAIN pc => ENABLED (ReadFirst(lock) \/ ReadMore(lock))
  /\ \A t \in DOMAIN pc :
       (pc[t] = "read_lock" /\ lock = "free") => ENABLED ReadLock(t)
  /\ (\E t \in DOMAIN pc : pc[t] # "done") => ENABLED NextConc

\* One caller's read() returned an error and the other caller has taken the
\* lock after it.
C36_Witness ==
  \E t, u \in DOMAIN pc :
    /\ t # u
    /\ pc[t] \in {"exec_decode", "done"}
    /\ loc[t].readErr # NoError
    /\ loc[t].reads >= 1
    /\ lock = u
    /\ InsideRead(u)

====
